---- MODULE Spec2Model ----
(***************************************************************************)
(* Model of the motion analyzer of Motion-Tracker                          *)
(* (src/services/motionAnalyzer.ts) and of the part of App.tsx that drives *)
(* it (handleFrame, toggleTracking / handleReset).                         *)
(*                                                                         *)
(* Numbers.  The code works on IEEE doubles; the model uses exact          *)
(* integers:                                                               *)
(*   - landmark coordinates are in units of 1/500 of the normalised frame; *)
(*   - velocities, distances and the threshold are in tenths (0.8 is 8);   *)
(*   - the smoothed velocity is the rational num/den, and the comparisons  *)
(*     with the thresholds are cross-multiplied.                           *)
(* Nullable fields (number | null, Point | null, HandData | null) are      *)
(* None == <<>> or Some(v) == <<v>>.                                       *)
(***************************************************************************)
EXTENDS Integers, Sequences, FiniteSets, TLC

\* ------------------------------------------------------------------ bounds
MaxFrames    == 9   \* processFrame calls per session explored, one hand driven
MaxPairFrames == 4  \* processFrame calls per session explored, both hands driven
MaxTime      == 1   \* largest value of the performance.now() clock explored
MaxSmoothing == 2   \* largest smoothingFrames of the general configurations
MaxDebounce  == 2   \* largest minDurationFrames of the general configurations
MaxScenarioFrames == 20  \* processFrame calls explored in the 0.8/5/5 scenario
MaxConfigFrames == 3  \* processFrame calls per session, any configuration
MaxCapacity == 3      \* largest capacity of the VelocityBuffer explored on its own
MaxSample == 2        \* largest sample added to it
MaxAdds == 5          \* samples added to it between two resets
MaxCallbacks == 4     \* animation frames requested in the camera view
MaxToggles == 4       \* presses of the tracking and reset buttons
MaxBandFrames == 8    \* processFrame calls explored with speeds on the thresholds

\* --------------------------------------------------------------- constants
Threshold          == 8    \* TRACKER_CONFIG.threshold = 0.8, in tenths
SmoothingFrames    == 5    \* TRACKER_CONFIG.smoothingFrames
MinDurationFrames  == 5    \* TRACKER_CONFIG.minDurationFrames
WristIndex         == 0    \* landmarks[0]
MiddleMcpIndex     == 9    \* landmarks[9]
ScenarioSpeed      == 20   \* the instantaneous speed 2.0 of the scenario, in tenths

VARIABLES
  config,            \* MotionAnalyzer.config
  hands,             \* leftHand / rightHand : HandState, indexed by handedness
  sessionStartTime,  \* MotionAnalyzer.sessionStartTime
  eventCounter,      \* MotionAnalyzer.eventCounter
  moveOrderCounter,  \* MotionAnalyzer.moveOrderCounter
  now,               \* the performance.now() clock
  events,            \* App: the events state (the session log)
  emitted,           \* history: every event analyzeHand pushed this session
  frames,            \* history: processFrame calls this session
  last,              \* history: inputs and outcome of the last processFrame call
  obs,               \* history: per-hand observations the claims are stated on
  vbuf,              \* a VelocityBuffer on its own: size, buffer, and the
                     \* history of the samples added since its last reset
  solo,              \* per hand, an analyzer fed the same timestamps and the
                     \* same samples of that hand while the other hand is
                     \* never detected: its state, counters, events, readout
  cam                \* CameraView: the isActive prop, the camera start in
                     \* flight, the video element, the animation frames

vars == <<config, hands, sessionStartTime, eventCounter, moveOrderCounter, now,
          events, emitted, frames, last, obs, vbuf, solo, cam>>

\* Everything but the camera view.
appVars == <<config, hands, sessionStartTime, eventCounter, moveOrderCounter,
             now, events, emitted, frames, last, obs, vbuf, solo>>

\* ------------------------------------------------------------------- types
None    == <<>>
Some(v) == <<v>>

Left  == "Left"     \* Handedness.Left
Right == "Right"    \* Handedness.Right
Handedness == {Left, Right}

Point(x, y, z) == [x |-> x, y |-> y, z |-> z]

\* A landmark list whose wrist (index 0) is p1 and whose middle-finger mcp
\* (index 9) is p2.  JavaScript index i is TLA+ index i + 1.
Landmarks(p1, p2) ==
  [i \in 1..(MiddleMcpIndex + 1) |-> IF i = MiddleMcpIndex + 1 THEN p2 ELSE p1]

\* Hand poses: the midpoints of wrist and mcp are (0,0), (3,4), (0,4), (6,8),
\* so that every distance between two poses is an integer.
PoseA == Landmarks(Point(0, 0, 0), Point(0, 0, 0))
PoseB == Landmarks(Point(2, 3, 0), Point(4, 5, 2))
PoseC == Landmarks(Point(0, 3, 0), Point(0, 5, 2))
PoseQ == Landmarks(Point(5, 7, 0), Point(7, 9, 2))

\* A list with a wrist but no index 9.
Degenerate == <<Point(0, 0, 0)>>

\* ---------------------------------------------------------- VelocityBuffer
RECURSIVE SeqSum(_)
SeqSum(s) == IF s = <<>> THEN 0 ELSE Head(s) + SeqSum(Tail(s))

\* new VelocityBuffer(size), with the history of the samples added.
VelocityBufferNew(size) == [size |-> size, buffer |-> <<>>, added |-> <<>>]

\* Variant: the newest sample is evicted (pop for shift).
VelocityBufferAddPop(buffer, size, val) ==
  LET pushed == Append(buffer, val)
  IN  IF Len(pushed) > size THEN SubSeq(pushed, 1, size) ELSE pushed

\* Variant: the eviction test is off by one (length > size + 1).
VelocityBufferAddLate(buffer, size, val) ==
  LET pushed == Append(buffer, val)
  IN  IF Len(pushed) > size + 1 THEN Tail(pushed) ELSE pushed

VelocityBufferAdd(buffer, size, val) ==
  LET pushed == Append(buffer, val)
  IN  IF Len(pushed) > size THEN Tail(pushed) ELSE pushed

\* Variant: the sum is divided by the capacity, not by the length.
VelocityBufferAverageOverSize(buffer) ==
  IF Len(buffer) = 0 THEN [num |-> 0, den |-> 1]
  ELSE [num |-> SeqSum(buffer), den |-> config.smoothingFrames]

\* VelocityBuffer.reset: the buffer it leaves.
VelocityBufferReset == <<>>

\* The average as the rational num/den.
VelocityBufferAverage(buffer) ==
  IF Len(buffer) = 0 THEN [num |-> 0, den |-> 1]
  ELSE [num |-> SeqSum(buffer), den |-> Len(buffer)]

\* smoothedVelocity > threshold
AboveStart(avg, threshold) == avg.num > threshold * avg.den

\* Variant: the comparison is not strict (smoothedVelocity <= threshold * 0.5).
BelowStopOrEqual(avg, threshold) == 2 * avg.num <= threshold * avg.den

\* smoothedVelocity < threshold * 0.5
BelowStop(avg, threshold) == 2 * avg.num < threshold * avg.den

\* --------------------------------------------------------------- HandState
createHandState ==
  [isMoving             |-> FALSE,
   motionStartTime      |-> None,
   lastPosition         |-> None,
   totalDistance        |-> 0,
   velocityBuffer       |-> <<>>,
   framesBelowThreshold |-> 0,
   framesAboveThreshold |-> 0]

\* `evt_${n}`
EventId(n) == "evt_" \o ToString(n)

\* Math.sqrt on the perfect squares the poses produce.
Sqrt(n) == CHOOSE r \in 0..n : r * r <= n /\ (r + 1) * (r + 1) > n

Absent(landmarks) == landmarks = None \/ Len(landmarks[1]) = 0

\* landmarks[9] is undefined: reading p2.x raises a TypeError.
Raises(landmarks) == ~Absent(landmarks) /\ Len(landmarks[1]) <= MiddleMcpIndex

CurrentPos(landmarks) ==
  LET p1 == landmarks[1][WristIndex + 1]
      p2 == landmarks[1][MiddleMcpIndex + 1]
  IN  Point((p1.x + p2.x) \div 2, (p1.y + p2.y) \div 2, (p1.z + p2.z) \div 2)

\* dist * 100, in tenths: a distance of d units of 1/500 is d/5, that is 2d tenths.
InstantaneousVelocity(state, landmarks) ==
  IF state.lastPosition = None THEN 0
  ELSE LET dx == CurrentPos(landmarks).x - state.lastPosition[1].x
           dy == CurrentPos(landmarks).y - state.lastPosition[1].y
       IN  2 * Sqrt(dx * dx + dy * dy)

\* `motionStartTime || timestamp`: null and 0 are both falsy.
OrElse(opt, dflt) == IF opt = None \/ opt[1] = 0 THEN dflt ELSE opt[1]

\* Variant: the accumulated distance is not zeroed.
StartMotionKeepsDistance(state, timestamp) ==
  [state EXCEPT !.isMoving = TRUE, !.motionStartTime = Some(timestamp)]

\* What the START transition writes to the hand state.
StartMotion(state, timestamp) ==
  [state EXCEPT !.isMoving = TRUE,
                !.motionStartTime = Some(timestamp),
                !.totalDistance = 0]

\* Variant: the ordinal is read before the increment.
StartEventStaleOrder(timestamp, handedness, ctx) ==
  [id         |-> EventId(ctx.eventCounter),
   hand       |-> handedness,
   type       |-> "START",
   timestamp  |-> timestamp - sessionStartTime,
   orderIndex |-> ctx.moveOrderCounter]

\* The START event; moveOrderCounter has been incremented before it is read.
StartEvent(timestamp, handedness, ctx) ==
  [id         |-> EventId(ctx.eventCounter),
   hand       |-> handedness,
   type       |-> "START",
   timestamp  |-> timestamp - sessionStartTime,
   orderIndex |-> ctx.moveOrderCounter + 1]

\* Variant: the motion-start timestamp is not cleared.
StopMotionKeepsStart(state) ==
  [state EXCEPT !.isMoving = FALSE]

\* Variant: the moving flag is not cleared.
StopMotionKeepsMoving(state) ==
  [state EXCEPT !.motionStartTime = None]

\* What the STOP transition writes to the hand state.
StopMotion(state) ==
  [state EXCEPT !.isMoving = FALSE, !.motionStartTime = None]

\* Variant: the identifier is numbered by the movement counter.
StopEventOrderId(timestamp, handedness, state, ctx) ==
  [id        |-> EventId(ctx.moveOrderCounter),
   hand      |-> handedness,
   type      |-> "STOP",
   timestamp |-> timestamp - sessionStartTime,
   duration  |-> timestamp - OrElse(state.motionStartTime, timestamp),
   distance  |-> state.totalDistance]

\* The STOP event.
StopEvent(timestamp, handedness, state, ctx) ==
  [id        |-> EventId(ctx.eventCounter),
   hand      |-> handedness,
   type      |-> "STOP",
   timestamp |-> timestamp - sessionStartTime,
   duration  |-> timestamp - OrElse(state.motionStartTime, timestamp),
   distance  |-> state.totalDistance]

\* The START branch (state.isMoving is false).
IdleBranch(timestamp, handedness, state, ctx, smoothed) ==
  IF AboveStart(smoothed, config.threshold)
  THEN LET counted == [state EXCEPT !.framesAboveThreshold = @ + 1]
       IN  IF counted.framesAboveThreshold >= config.minDurationFrames
           THEN [state |-> StartMotion(counted, timestamp),
                 ctx   |-> [events |-> Append(ctx.events,
                                         StartEvent(timestamp, handedness, ctx)),
                            eventCounter     |-> ctx.eventCounter + 1,
                            moveOrderCounter |-> ctx.moveOrderCounter + 1]]
           ELSE [state |-> counted, ctx |-> ctx]
  ELSE [state |-> [state EXCEPT !.framesAboveThreshold = 0], ctx |-> ctx]

\* The STOP branch (state.isMoving is true).
MovingBranch(timestamp, handedness, state, ctx, smoothed, instantaneousVelocity) ==
  LET acc == [state EXCEPT !.totalDistance = @ + instantaneousVelocity]
  IN  IF BelowStop(smoothed, config.threshold)
      THEN LET counted == [acc EXCEPT !.framesBelowThreshold = @ + 1]
           IN  IF counted.framesBelowThreshold >= config.minDurationFrames
               THEN [state |-> StopMotion(counted),
                     ctx   |-> [events |-> Append(ctx.events,
                                    StopEvent(timestamp, handedness, counted, ctx)),
                                eventCounter     |-> ctx.eventCounter + 1,
                                moveOrderCounter |-> ctx.moveOrderCounter]]
               ELSE [state |-> counted, ctx |-> ctx]
      ELSE [state |-> [acc EXCEPT !.framesBelowThreshold = 0], ctx |-> ctx]

\* Variant: a hand that is not detected is evaluated as a frame of speed 0.
AbsentBranchEvaluates(timestamp, handedness, state, ctx) ==
  LET pushed == [state EXCEPT !.velocityBuffer =
                   VelocityBufferAdd(@, config.smoothingFrames, 0)]
      smoothed == VelocityBufferAverage(pushed.velocityBuffer)
      r == IF ~state.isMoving
           THEN IdleBranch(timestamp, handedness, pushed, ctx, smoothed)
           ELSE MovingBranch(timestamp, handedness, pushed, ctx, smoothed, 0)
  IN  [state |-> r.state, ctx |-> r.ctx, metrics |-> None, raised |-> FALSE]

\* The branch of a hand that is not detected: null or an empty list.
AbsentBranch(timestamp, handedness, state, ctx) ==
  [state   |-> [state EXCEPT !.velocityBuffer =
                  VelocityBufferAdd(@, config.smoothingFrames, 0)],
   ctx     |-> ctx,
   metrics |-> None,
   raised  |-> FALSE]

\* Variant: the moving flag is the comparison of the smoothed velocity with
\* the threshold, not the state.
HandReadoutByVelocity(handedness, landmarks, smoothedVelocity, state) ==
  [handedness |-> handedness,
   landmarks  |-> landmarks[1],
   velocity   |-> smoothedVelocity,
   isMoving   |-> AboveStart(smoothedVelocity, config.threshold),
   score      |-> 10]

\* The readout analyzeHand returns; state is the hand state after the
\* branches have run.
HandReadout(handedness, landmarks, smoothedVelocity, state) ==
  [handedness |-> handedness,
   landmarks  |-> landmarks[1],
   velocity   |-> smoothedVelocity,
   isMoving   |-> state.isMoving,
   score      |-> 10]

\* analyzeHand.  ctx carries the events array of the call and the two
\* counters of the analyzer; the result carries them back with the new hand
\* state, the returned readout and whether the call raised.
analyzeHand(timestamp, handedness, landmarks, state, ctx) ==
  IF Absent(landmarks)
  THEN AbsentBranch(timestamp, handedness, state, ctx)
  ELSE IF Raises(landmarks)
  THEN [state |-> state, ctx |-> ctx, metrics |-> None, raised |-> TRUE]
  ELSE
    LET instantaneousVelocity == InstantaneousVelocity(state, landmarks)
        moved == [state EXCEPT
                    !.lastPosition   = Some(CurrentPos(landmarks)),
                    !.velocityBuffer = VelocityBufferAdd(@, config.smoothingFrames,
                                                         instantaneousVelocity)]
        smoothedVelocity == VelocityBufferAverage(moved.velocityBuffer)
        r == IF ~state.isMoving
             THEN IdleBranch(timestamp, handedness, moved, ctx, smoothedVelocity)
             ELSE MovingBranch(timestamp, handedness, moved, ctx, smoothedVelocity,
                               instantaneousVelocity)
    IN  [state   |-> r.state,
         ctx     |-> r.ctx,
         metrics |-> Some(HandReadout(handedness, landmarks, smoothedVelocity,
                                      r.state)),
         raised  |-> FALSE]

\* A processFrame that analyses the right hand first.
processFrameRightFirst(timestamp, leftLandmarks, rightLandmarks) ==
  LET ctx0 == [events |-> <<>>, eventCounter |-> eventCounter,
               moveOrderCounter |-> moveOrderCounter]
      r == analyzeHand(timestamp, Right, rightLandmarks, hands[Right], ctx0)
      l == IF r.raised
           THEN [state |-> hands[Left], ctx |-> r.ctx, metrics |-> None,
                 raised |-> TRUE]
           ELSE analyzeHand(timestamp, Left, leftLandmarks, hands[Left], r.ctx)
  IN  [hands        |-> (Left :> l.state @@ Right :> r.state),
       pushed       |-> l.ctx.events,
       eventCounter |-> l.ctx.eventCounter,
       moveOrderCounter |-> l.ctx.moveOrderCounter,
       leftMetrics  |-> l.metrics,
       rightMetrics |-> r.metrics,
       raised       |-> l.raised]

\* processFrame as a function of the analyzer's state: the left hand, then
\* the right hand unless the left call raised.
processFrame(timestamp, leftLandmarks, rightLandmarks) ==
  LET ctx0 == [events |-> <<>>, eventCounter |-> eventCounter,
               moveOrderCounter |-> moveOrderCounter]
      l == analyzeHand(timestamp, Left, leftLandmarks, hands[Left], ctx0)
      r == IF l.raised
           THEN [state |-> hands[Right], ctx |-> l.ctx, metrics |-> None,
                 raised |-> TRUE]
           ELSE analyzeHand(timestamp, Right, rightLandmarks, hands[Right], l.ctx)
  IN  [hands        |-> (Left :> l.state @@ Right :> r.state),
       pushed       |-> r.ctx.events,
       eventCounter |-> r.ctx.eventCounter,
       moveOrderCounter |-> r.ctx.moveOrderCounter,
       leftMetrics  |-> l.metrics,
       rightMetrics |-> r.metrics,
       raised       |-> r.raised]

\* ------------------------------------------------------------------ inputs
\* What the detector can hand over for one hand in one frame.
Sample(name) ==
  CASE name = "null"  -> None
    [] name = "empty" -> Some(<<>>)
    [] name = "short" -> Some(Degenerate)
    [] name = "A"     -> Some(PoseA)
    [] name = "B"     -> Some(PoseB)
    [] name = "C"     -> Some(PoseC)
    [] name = "Q"     -> Some(PoseQ)

Samples         == {"null", "empty", "short", "A", "B"}
PairSamples     == {"null", "short", "A", "B"}
ScenarioSamples == {"null", "A", "Q"}

Kind(name) ==
  IF Absent(Sample(name)) THEN "absent"
  ELSE IF Raises(Sample(name)) THEN "raises" ELSE "present"

Configs ==
  {[threshold |-> Threshold, smoothingFrames |-> s, minDurationFrames |-> d] :
     s \in 1..MaxSmoothing, d \in 1..MaxDebounce}

\* The configurations explored with both hands driven.
PairConfigs ==
  {[threshold |-> Threshold, smoothingFrames |-> n, minDurationFrames |-> n] :
     n \in 1..MaxDebounce}

\* What the constructor accepts: it stores any configuration as given.
AnyConfigs ==
  {[threshold |-> t, smoothingFrames |-> s, minDurationFrames |-> d] :
     t \in {0 - Threshold, 0, Threshold},
     s \in 0..MaxSmoothing, d \in 0..MaxDebounce}

TRACKER_CONFIG ==
  [threshold |-> Threshold, smoothingFrames |-> SmoothingFrames,
   minDurationFrames |-> MinDurationFrames]

\* ---------------------------------------------------------------- history
\* Per-hand observations, kept beside the analyzer and never read by it.
\*   aboveRun   consecutive evaluated frames, ending with the latest, on
\*              which the hand was Idle and the smoothed velocity was above
\*              the start threshold
\*   belowRun   consecutive evaluated frames, ending with the latest, on
\*              which the hand was Moving and the smoothed velocity was
\*              below the stop threshold
\*   movingSum  sum of the raw speeds of the evaluated frames since the hand
\*              last became Moving
\*   underRun   consecutive frames (absent ones included), ending with the
\*              latest, on which the hand was Moving and the window average
\*              was below the stop threshold
\*   absentRun  consecutive absent frames, ending with the latest
\*   fixN       consecutive evaluated frames at the position fixPos fed to a
\*              hand that was Moving when the first of them arrived
\*   fixStop    a STOP was emitted on one of those frames
\*   steady     Some(number of frames of the session) as long as in each of
\*              them the hand was evaluated and (but for the first) had the
\*              raw speed ScenarioSpeed; None from then on
ObsInit ==
  [aboveRun |-> 0, belowRun |-> 0, movingSum |-> 0, underRun |-> 0,
   absentRun |-> 0, fixN |-> 0, fixPos |-> None, fixStop |-> FALSE,
   steady |-> Some(0)]

\* The observations after a frame in which analyzeHand ran for the hand:
\* s is the hand state before, s2 after, stopped whether it emitted a STOP.
ObsNext(o, name, s, s2, stopped) ==
  LET lm   == Sample(name)
      avg  == VelocityBufferAverage(s2.velocityBuffer)
      pos  == CurrentPos(lm)
      same == o.fixN > 0 /\ o.fixPos = Some(<<pos.x, pos.y>>)
             /\ ~(o.fixStop /\ s.isMoving)
  IN  IF Kind(name) = "raises" THEN [o EXCEPT !.steady = None]
      ELSE IF Kind(name) = "absent"
      THEN [o EXCEPT !.steady    = None,
                     !.absentRun = @ + 1,
                     !.underRun  = IF s.isMoving /\ BelowStop(avg, config.threshold)
                                   THEN @ + 1 ELSE 0,
                     !.fixN      = 0,
                     !.fixPos    = None,
                     !.fixStop   = FALSE]
      ELSE [aboveRun  |-> IF ~s.isMoving /\ AboveStart(avg, config.threshold)
                          THEN o.aboveRun + 1 ELSE 0,
            belowRun  |-> IF s.isMoving /\ BelowStop(avg, config.threshold)
                          THEN o.belowRun + 1 ELSE 0,
            movingSum |-> IF s.isMoving
                          THEN o.movingSum + InstantaneousVelocity(s, lm) ELSE 0,
            underRun  |-> IF s.isMoving /\ BelowStop(avg, config.threshold)
                          THEN o.underRun + 1 ELSE 0,
            absentRun |-> 0,
            fixN      |-> IF same THEN o.fixN + 1
                          ELSE IF s.isMoving THEN 1 ELSE 0,
            fixPos    |-> IF same THEN o.fixPos
                          ELSE IF s.isMoving THEN Some(<<pos.x, pos.y>>) ELSE None,
            fixStop   |-> IF same THEN o.fixStop \/ stopped
                          ELSE IF s.isMoving THEN stopped ELSE FALSE,
            steady    |-> IF o.steady # None
                             /\ (frames = 0
                                 \/ InstantaneousVelocity(s, lm) = ScenarioSpeed)
                          THEN Some(frames + 1) ELSE None]

\* moving: the hands that were Moving when the call was made.
LastInit ==
  [call |-> "none", timestamp |-> 0, left |-> "absent", right |-> "absent",
   pushed |-> <<>>, raised |-> FALSE, leftMetrics |-> None,
   rightMetrics |-> None, moving |-> {}]

\* What the history keeps of a returned readout (the landmark list is passed
\* through unchanged and is left out).
Readout(metrics) ==
  IF metrics = None THEN None
  ELSE Some([handedness |-> metrics[1].handedness,
             velocity   |-> metrics[1].velocity,
             isMoving   |-> metrics[1].isMoving])

StoppedBy(pushed, h) ==
  \E i \in 1..Len(pushed) : pushed[i].hand = h /\ pushed[i].type = "STOP"

\* The analyzer that sees one hand only, as constructed or reset.
SoloInit ==
  [state |-> createHandState, eventCounter |-> 0, moveOrderCounter |-> 0,
   events |-> <<>>, metrics |-> None]

\* processFrame of that analyzer: the other hand takes the absent branch,
\* which touches nothing of this hand, and this hand is analysed.
SoloFrame(s, timestamp, handedness, landmarks) ==
  LET ctx0 == [events |-> <<>>, eventCounter |-> s.eventCounter,
               moveOrderCounter |-> s.moveOrderCounter]
      r == analyzeHand(timestamp, handedness, landmarks, s.state, ctx0)
  IN  [state            |-> r.state,
       eventCounter     |-> r.ctx.eventCounter,
       moveOrderCounter |-> r.ctx.moveOrderCounter,
       events           |-> s.events \o r.ctx.events,
       metrics          |-> IF r.raised THEN None ELSE Readout(r.metrics)]

\* CameraView as mounted, tracking off.
\*   isActive    the isActive prop (App's isTracking), its effect applied
\*   starting    the startCamera calls awaiting getUserMedia, each with the
\*               isActive its loop closure has captured
\*   srcObject   the stream of the video element: none, live, stopped
\*   handler     onloadedmetadata with its loop closure, when the event of
\*               the current stream has not fired yet
\*   scheduled   the animation frames requested and neither run nor
\*               cancelled: their id and the isActive their closure sees
\*   requestRef  requestRef.current
\*   nextId      the id the next requestAnimationFrame returns
\*   toggles     history: button presses
\*   stray       history: onFrame was invoked while isActive was false
CamInit ==
  [isActive |-> FALSE, starting |-> <<>>, srcObject |-> "none",
   handler |-> None, scheduled |-> {}, requestRef |-> None, nextId |-> 1,
   toggles |-> 0, stray |-> FALSE]

\* cancelAnimationFrame(requestRef.current)
CancelRequested(c) ==
  IF c.requestRef = None THEN c
  ELSE [c EXCEPT !.scheduled = {f \in @ : f.id # c.requestRef[1]}]

\* The effect when isActive has become true: the cleanup of the previous
\* effect, then startCamera(), whose closures see isActive = true.
EffectActive(c) ==
  [CancelRequested(c) EXCEPT !.isActive = TRUE,
                             !.starting = Append(@, TRUE)]

\* The effect when isActive has become false: the cleanup of the previous
\* effect, then the else branch, which cancels the requested frame and
\* stops the tracks of the stream.  A loadedmetadata event still pending
\* for the stopped stream may fire later or never: the handler stays.
EffectInactive(c) ==
  [CancelRequested(CancelRequested(c)) EXCEPT
     !.isActive = FALSE,
     !.srcObject = IF @ = "live" THEN "stopped" ELSE @]

\* ----------------------------------------------------------------- actions
\* new MotionAnalyzer(cfg), and the initial state of App.
InitAnalyzer(cfgs) ==
  /\ config \in cfgs
  /\ hands = [h \in Handedness |-> createHandState]
  /\ sessionStartTime = 0
  /\ eventCounter = 0
  /\ moveOrderCounter = 0
  /\ now = 0
  /\ events = <<>>
  /\ emitted = <<>>
  /\ frames = 0
  /\ last = LastInit
  /\ obs = [h \in Handedness |-> ObsInit]
  /\ solo = [h \in Handedness |-> SoloInit]

InitWith(cfgs) ==
  /\ InitAnalyzer(cfgs)
  /\ vbuf = VelocityBufferNew(1)
  /\ cam = CamInit

Init == InitWith(PairConfigs)

InitHand == InitWith(Configs)

\* App.handleFrame: processFrame(performance.now(), leftLM, rightLM), then
\* the returned events are appended to the log.  When processFrame raises,
\* handleFrame is left at that point: nothing is returned and nothing is
\* appended, while what analyzeHand already wrote to the analyzer stays.
\* The per-hand observations are recorded when observed is TRUE.
\* The caller of the analyzer may call processFrame again after a call that
\* raised.
HandleFrame(timestamp, left, right, observed) ==
  \E res \in {processFrame(timestamp, Sample(left), Sample(right))} :
      /\ timestamp >= now
      /\ now' = timestamp
      /\ hands' = res.hands
      /\ eventCounter' = res.eventCounter
      /\ moveOrderCounter' = res.moveOrderCounter
      /\ events' = IF ~res.raised /\ Len(res.pushed) > 0
                   THEN events \o res.pushed ELSE events
      /\ emitted' = emitted \o res.pushed
      /\ frames' = frames + 1
      /\ last' = [call |-> "processFrame", timestamp |-> timestamp,
                  left |-> Kind(left), right |-> Kind(right),
                  pushed |-> res.pushed, raised |-> res.raised,
                  leftMetrics  |-> IF res.raised THEN None ELSE Readout(res.leftMetrics),
                  rightMetrics |-> IF res.raised THEN None ELSE Readout(res.rightMetrics),
                  moving |-> {h \in Handedness : hands[h].isMoving}]
      /\ obs' = [h \in Handedness |->
                   IF ~observed THEN obs[h]
                   ELSE IF h = Left \/ Kind(left) # "raises"
                   THEN ObsNext(obs[h], IF h = Left THEN left ELSE right,
                                hands[h], res.hands[h], StoppedBy(res.pushed, h))
                   ELSE [obs[h] EXCEPT !.steady = None]]
      /\ UNCHANGED <<config, sessionStartTime, vbuf>>

\* A resetSession that keeps the counters running.
resetSessionKeepsCounters(t) ==
  [sessionStartTime |-> t,
   eventCounter     |-> eventCounter,
   moveOrderCounter |-> moveOrderCounter,
   hands            |-> [h \in Handedness |-> createHandState]]

\* A resetSession that keeps the hand states.
resetSessionKeepsHands(t) ==
  [sessionStartTime |-> t,
   eventCounter     |-> 0,
   moveOrderCounter |-> 0,
   hands            |-> hands]

\* resetSession at the clock value t: the fields it writes.
resetSession(t) ==
  [sessionStartTime |-> t,
   eventCounter     |-> 0,
   moveOrderCounter |-> 0,
   hands            |-> [h \in Handedness |-> createHandState]]

\* resetSession, as App.toggleTracking and App.handleReset call it: the
\* analyzer is reinitialised and the log is cleared.
ResetSession(dt) ==
  \E res \in {resetSession(now + dt)} :
      /\ now + dt <= MaxTime
      /\ frames > 0
      /\ now' = now + dt
      /\ sessionStartTime' = res.sessionStartTime
      /\ eventCounter' = res.eventCounter
      /\ moveOrderCounter' = res.moveOrderCounter
      /\ hands' = res.hands
      /\ events' = <<>>
      /\ emitted' = <<>>
      /\ frames' = 0
      /\ last' = [LastInit EXCEPT !.call = "resetSession",
                                  !.timestamp = now + dt,
                                  !.moving = {h \in Handedness : hands[h].isMoving}]
      /\ obs' = [h \in Handedness |-> ObsInit]
      /\ solo' = [h \in Handedness |-> SoloInit]
      /\ UNCHANGED <<config, vbuf>>

\* Both hands driven; the per-hand observations are not recorded.
Frame ==
  /\ frames < MaxPairFrames
  /\ \E dt \in 0..1, left \in PairSamples, right \in PairSamples :
       /\ now + dt <= MaxTime
       /\ HandleFrame(now + dt, left, right, FALSE)
       /\ UNCHANGED <<solo, cam>>

Reset == \E dt \in 0..1 : ResetSession(dt) /\ UNCHANGED cam

Next == Frame \/ Reset

Spec == Init /\ [][Next]_vars

\* One hand driven, the other never detected.
FrameHand ==
  /\ frames < MaxFrames
  /\ \E dt \in 0..1, left \in Samples :
       /\ now + dt <= MaxTime
       /\ HandleFrame(now + dt, left, "null", TRUE)
       /\ UNCHANGED <<solo, cam>>

NextHand == FrameHand \/ Reset

SpecHand == InitHand /\ [][NextHand]_vars

\* The configuration of App (0.8 / 5 / 5), one hand driven, the frame with
\* index i at timestamp i.
FrameScenario ==
  /\ frames < MaxScenarioFrames
  /\ \E left \in ScenarioSamples : HandleFrame(frames, left, "null", TRUE)
  /\ UNCHANGED <<solo, cam>>

NextScenario == FrameScenario

SpecScenario == InitWith({TRACKER_CONFIG}) /\ [][NextScenario]_vars

\* One hand driven through the poses A, B and C, whose mutual speeds are
\* 1.0 (A-B), 0.8 (A-C, the threshold) and 0.6 (B-C), so that the window
\* average also takes the values 0.8 and 0.4 exactly.
FrameBand ==
  /\ frames < MaxBandFrames
  /\ \E left \in {"A", "B", "C"} : HandleFrame(now, left, "null", TRUE)
  /\ UNCHANGED <<solo, cam>>

NextBand == FrameBand

SpecBand == InitHand /\ [][NextBand]_vars

\* Both hands driven, and beside the analyzer, for each hand, the analyzer
\* that is fed that hand's samples alone.
FrameTwin ==
  /\ frames < MaxPairFrames
  /\ \E dt \in 0..1, left \in PairSamples, right \in PairSamples :
       /\ now + dt <= MaxTime
       /\ HandleFrame(now + dt, left, right, FALSE)
       /\ solo' = [h \in Handedness |->
                     SoloFrame(solo[h], now + dt, h,
                               Sample(IF h = Left THEN left ELSE right))]
       /\ UNCHANGED cam

NextTwin == FrameTwin \/ Reset

SpecTwin == Init /\ [][NextTwin]_vars

\* resetSession and the clearing of the log as the buttons call them,
\* without a clock step; with no frame processed since the last reset the
\* call changes nothing.
ButtonReset ==
  IF frames > 0 THEN ResetSession(0) ELSE UNCHANGED appVars

\* App.toggleTracking
ToggleTracking ==
  /\ cam.toggles < MaxToggles
  /\ IF ~cam.isActive
     THEN /\ ButtonReset
          /\ cam' = [EffectActive(cam) EXCEPT !.toggles = @ + 1]
     ELSE /\ UNCHANGED appVars
          /\ cam' = [EffectInactive(cam) EXCEPT !.toggles = @ + 1]

\* App.handleReset; the effect runs only when isActive changes.
HandleReset ==
  /\ cam.toggles < MaxToggles
  /\ ButtonReset
  /\ cam' = [(IF cam.isActive THEN EffectInactive(cam) ELSE cam)
               EXCEPT !.toggles = @ + 1]

\* getUserMedia resolves: the stream becomes the srcObject of the video
\* element and onloadedmetadata is assigned.
GetUserMediaResolves ==
  /\ cam.starting # <<>>
  /\ cam' = [cam EXCEPT !.starting = Tail(@),
                        !.srcObject = "live",
                        !.handler = Some(Head(cam.starting))]
  /\ UNCHANGED appVars

\* getUserMedia rejects: the catch block logs the error.
GetUserMediaRejects ==
  /\ cam.starting # <<>>
  /\ cam' = [cam EXCEPT !.starting = Tail(@)]
  /\ UNCHANGED appVars

\* loadedmetadata fires: play(), and the first animation frame is requested.
LoadedMetadata ==
  /\ cam.handler # None
  /\ cam.nextId <= MaxCallbacks
  /\ cam' = [cam EXCEPT
               !.handler = None,
               !.scheduled = @ \cup {[id |-> cam.nextId, sees |-> cam.handler[1]]},
               !.requestRef = Some(cam.nextId),
               !.nextId = @ + 1]
  /\ UNCHANGED appVars

\* A requested animation frame runs loop: onFrame when the closure's
\* isActive holds (both refs are set while the view is mounted), then the
\* next frame is requested.  The detector hands over a full left-hand list
\* or nothing.
LoopTick ==
  /\ cam.nextId <= MaxCallbacks
  /\ \E f \in cam.scheduled :
       /\ cam' = [cam EXCEPT
                    !.scheduled = (@ \ {f}) \cup {[id |-> cam.nextId, sees |-> f.sees]},
                    !.requestRef = Some(cam.nextId),
                    !.nextId = @ + 1,
                    !.stray = @ \/ (f.sees /\ ~cam.isActive)]
       /\ IF f.sees
          THEN /\ \E left \in {"null", "A", "B"} : HandleFrame(now, left, "null", FALSE)
               /\ UNCHANGED solo
          ELSE UNCHANGED appVars

NextCamera ==
  \/ ToggleTracking
  \/ HandleReset
  \/ GetUserMediaResolves
  \/ GetUserMediaRejects
  \/ LoadedMetadata
  \/ LoopTick

SpecCamera == InitWith({TRACKER_CONFIG}) /\ [][NextCamera]_vars

\* A VelocityBuffer on its own, under any sequence of add and reset.
InitBuffer ==
  /\ InitAnalyzer({TRACKER_CONFIG})
  /\ vbuf \in {VelocityBufferNew(c) : c \in 1..MaxCapacity}
  /\ cam = CamInit

BufferAdd ==
  /\ Len(vbuf.added) < MaxAdds
  /\ \E val \in 0..MaxSample :
       vbuf' = [vbuf EXCEPT
                  !.buffer = VelocityBufferAdd(@, vbuf.size, val),
                  !.added  = Append(@, val)]
  /\ UNCHANGED <<config, hands, sessionStartTime, eventCounter,
                 moveOrderCounter, now, events, emitted, frames, last, obs,
                 solo, cam>>

BufferReset ==
  /\ vbuf.added # <<>>
  /\ vbuf' = [vbuf EXCEPT !.buffer = VelocityBufferReset, !.added = <<>>]
  /\ UNCHANGED <<config, hands, sessionStartTime, eventCounter,
                 moveOrderCounter, now, events, emitted, frames, last, obs,
                 solo, cam>>

NextBuffer == BufferAdd \/ BufferReset

SpecBuffer == InitBuffer /\ [][NextBuffer]_vars

\* Any configuration the constructor accepts, one hand driven.
FrameAnyConfig ==
  /\ frames < MaxConfigFrames
  /\ \E dt \in 0..1, left \in {"null", "A", "B"} :
       /\ now + dt <= MaxTime
       /\ HandleFrame(now + dt, left, "null", TRUE)
       /\ UNCHANGED <<solo, cam>>

NextAnyConfig == FrameAnyConfig \/ Reset

SpecAnyConfig == InitWith(AnyConfigs) /\ [][NextAnyConfig]_vars

\* ------------------------------------------------------------------ claims
\* The events of one hand, in emission order.
HandEvents(log, h) == SelectSeq(log, LAMBDA e : e.hand = h)

Starts(log) == SelectSeq(log, LAMBDA e : e.type = "START")

\* The event the hand pushed in the last processFrame call, if any.
PushedBy(h) == HandEvents(last.pushed, h)

\* C1: the events emitted for a hand in a session alternate START, STOP,
\* START, ... beginning with START: the odd ones are STARTs and the even ones
\* STOPs, so that only a trailing START can be unterminated.
C1_Alternation ==
  \A h \in Handedness :
    \A i \in 1..Len(HandEvents(emitted, h)) :
      HandEvents(emitted, h)[i].type = IF i % 2 = 1 THEN "START" ELSE "STOP"

\* C1 witness: a hand has emitted START, STOP, START.
C1_Witness ==
  \E h \in Handedness : Len(HandEvents(emitted, h)) >= 3

\* C2: the duration of every STOP event is its timestamp minus the timestamp
\* of the START event of the same hand that precedes it.
C2_DurationIsDifference ==
  \A h \in Handedness :
    \A i \in 2..Len(HandEvents(emitted, h)) :
      HandEvents(emitted, h)[i].type = "STOP" =>
        HandEvents(emitted, h)[i].duration =
          HandEvents(emitted, h)[i].timestamp - HandEvents(emitted, h)[i - 1].timestamp

\* C3: a START is emitted only on a frame that ends a run of at least
\* minDurationFrames consecutive evaluated frames on which the hand was Idle
\* and the smoothed velocity was above the start threshold.
C3_StartIsDebounced ==
  \A h \in Handedness :
    (PushedBy(h) # <<>> /\ PushedBy(h)[1].type = "START") =>
      obs[h].aboveRun >= config.minDurationFrames

\* C4: a STOP is emitted only after at least minDurationFrames consecutive
\* readings below the stop threshold during the current Moving run.
C4_StopIsDebounced ==
  \A h \in Handedness :
    (PushedBy(h) # <<>> /\ PushedBy(h)[1].type = "STOP") =>
      obs[h].belowRun >= config.minDurationFrames

\* C5: a Moving hand fed the same position on minDurationFrames +
\* smoothingFrames consecutive present frames has emitted a STOP on one of
\* them.
C5_StillHandStops ==
  \A h \in Handedness :
    obs[h].fixN >= config.minDurationFrames + config.smoothingFrames =>
      obs[h].fixStop

\* C5 witness: such a run of frames has been fed, with the largest debounce
\* length and window explored, and the STOP came on its last frame.
C5_Witness ==
  /\ config.minDurationFrames > 1
  /\ config.smoothingFrames > 1
  /\ obs[Left].fixN = config.minDurationFrames + config.smoothingFrames
  /\ PushedBy(Left) # <<>>
  /\ PushedBy(Left)[1].type = "STOP"

LastKind(h) == IF h = Left THEN last.left ELSE last.right

\* C6 as stated: once the window average of a Moving hand has been under the
\* stop threshold for minDurationFrames consecutive frames, absent frames
\* counting, the STOP has been emitted though the hand is still not visible.
C6_AbsentFramesStop ==
  \A h \in Handedness :
    ~(/\ hands[h].isMoving
      /\ LastKind(h) = "absent"
      /\ obs[h].absentRun >= 1
      /\ obs[h].underRun >= config.minDurationFrames)

\* C6 amended: no event is emitted for a hand on a frame in which it is
\* absent, and a Moving hand has emitted its STOP at the latest on the
\* minDurationFrames-th consecutive present frame whose smoothed velocity is
\* below the stop threshold.
C6_StopNeedsVisibleHand ==
  \A h \in Handedness :
    /\ LastKind(h) = "absent" => PushedBy(h) = <<>>
    /\ hands[h].isMoving => obs[h].belowRun < config.minDurationFrames

\* C6 witness: the STOP of a hand whose window was under the stop threshold
\* through minDurationFrames absent frames and then minDurationFrames
\* present ones.
C6_Witness ==
  /\ PushedBy(Left) # <<>>
  /\ PushedBy(Left)[1].type = "STOP"
  /\ obs[Left].belowRun = config.minDurationFrames
  /\ obs[Left].underRun >= 2 * config.minDurationFrames

ScenarioStart(index) ==
  [id |-> EventId(0), hand |-> Left, type |-> "START", timestamp |-> index,
   orderIndex |-> 1]

\* C7 as stated: while every frame of the session moved the hand at speed
\* 2.0, there is no START before frame index 8, and from frame index 8 to
\* frame index 9 the only event is the START with ordinal 1 and timestamp 8.
C7_StartAtFrame8 ==
  (obs[Left].steady = Some(frames) /\ frames <= 10) =>
    IF frames <= 8 THEN emitted = <<>> ELSE emitted = <<ScenarioStart(8)>>

\* C7 amended: the first frame of a session has speed 0 and the average is
\* over the samples present, so the START with ordinal 1 is emitted at frame
\* index 5 with timestamp 5; it is the only event of the 10 frames.
C7_StartAtFrame5 ==
  (obs[Left].steady = Some(frames) /\ frames <= 10) =>
    IF frames <= 5 THEN emitted = <<>> ELSE emitted = <<ScenarioStart(5)>>

\* C7 witness: the 10 frames of the scenario have been fed.
C7_Witness ==
  /\ obs[Left].steady = Some(10)
  /\ frames = 10
  /\ now = 9

\* C8: the n-th START emitted in a session, both hands together, carries the
\* ordinal n.
C8_OrdinalIsRank ==
  \A i \in 1..Len(Starts(emitted)) : Starts(emitted)[i].orderIndex = i

\* C8 witness: both hands started in one frame, after earlier STARTs.
C8_Witness ==
  /\ Len(last.pushed) = 2
  /\ last.pushed[1].type = "START"
  /\ last.pushed[2].type = "START"
  /\ last.pushed[1].orderIndex >= 2

\* C9: the distance of a STOP event is the sum of the raw speeds of the
\* present frames processed while the hand was Moving in that run: those
\* after the START frame, up to and including the STOP frame.
C9_DistanceIsRawSum ==
  \A h \in Handedness :
    (PushedBy(h) # <<>> /\ PushedBy(h)[1].type = "STOP") =>
      PushedBy(h)[1].distance = obs[h].movingSum

\* C9 witness: the STOP of a second run that covered a distance, after a
\* first run that covered one too.
C9_Witness ==
  /\ Len(HandEvents(emitted, Left)) = 4
  /\ PushedBy(Left) # <<>>
  /\ PushedBy(Left)[1].type = "STOP"
  /\ PushedBy(Left)[1].distance > 0
  /\ HandEvents(emitted, Left)[2].distance > 0

\* C10: processFrame never raises, and every event a hand produced in a
\* frame reaches the log.
C10_NeverFails ==
  /\ ~last.raised
  /\ \A i \in 1..Len(last.pushed) :
       \E j \in 1..Len(events) : events[j] = last.pushed[i]

\* ------------------------------------------------------------------- C11
\* A configuration the contract of the tracker admits: a positive threshold,
\* a smoothing window of at least one sample, a debounce of at least one frame.
ValidConfig(c) ==
  c.threshold > 0 /\ c.smoothingFrames >= 1 /\ c.minDurationFrames >= 1

\* C11: an analyzer whose configuration has a non-positive threshold, a zero
\* smoothing capacity or a zero debounce is rejected at construction: it
\* never processes a frame and never emits an event.
C11_InvalidConfigRejected ==
  ~ValidConfig(config) => (last.call = "none" /\ frames = 0 /\ emitted = <<>>)

\* ------------------------------------------------------------------- C12
\* A step that is a session reset, and a step that is a processFrame call.
IsResetStep == last'.call = "resetSession" /\ frames > 0 /\ frames' = 0
IsFrameStep == last'.call = "processFrame" /\ frames' = frames + 1

\* C12: a session reset, in whatever state it is invoked, leaves the log
\* empty and both hands Idle and makes the clock value of the reset the
\* session origin; the origin then stays, and every event a later frame
\* emits carries the frame's timestamp minus that origin.
C12_ResetStartsSession ==
  [][ /\ IsResetStep =>
           /\ events' = <<>>
           /\ \A h \in Handedness : ~hands'[h].isMoving
           /\ sessionStartTime' = now'
      /\ IsFrameStep =>
           /\ sessionStartTime' = sessionStartTime
           /\ \A i \in 1..Len(last'.pushed) :
                last'.pushed[i].timestamp = last'.timestamp - sessionStartTime
    ]_vars

\* An event emitted in a session that a reset started at a clock value
\* other than 0.
C12_Witness ==
  /\ last.call = "processFrame"
  /\ last.pushed # <<>>
  /\ sessionStartTime > 0

\* ------------------------------------------------------------------- C13
\* The number k of the identifier evt_k.
IdNumber(id) == CHOOSE k \in 0..Len(emitted) : EventId(k) = id

BothEmitted ==
  /\ last.call = "processFrame"
  /\ PushedBy(Left) # <<>>
  /\ PushedBy(Right) # <<>>

\* C13: when both hands emit an event in one processFrame call, the left
\* hand's event comes first in the events of the call and in the log, has
\* the smaller identifier, and, when both are STARTs, the smaller ordinal.
C13_LeftBeforeRight ==
  BothEmitted =>
    LET a == last.pushed[1]
        b == last.pushed[2]
        n == Len(events)
    IN  /\ Len(last.pushed) = 2
        /\ a.hand = Left
        /\ b.hand = Right
        /\ IdNumber(a.id) < IdNumber(b.id)
        /\ (a.type = "START" /\ b.type = "START") => a.orderIndex < b.orderIndex
        /\ n >= 2
        /\ SubSeq(events, n - 1, n) = <<a, b>>

\* Both hands start in one frame of a session whose log already holds events.
C13_Witness ==
  /\ BothEmitted
  /\ last.pushed[1].type = "START"
  /\ last.pushed[2].type = "START"
  /\ Len(events) > 2

\* ------------------------------------------------------------------- C14
\* The window after one more sample v, for a capacity of at least 1.
WindowAfter(old, capacity, v) ==
  (IF Len(old) < capacity THEN old ELSE Tail(old)) \o <<v>>

\* C14: a frame in which a hand is absent pushes exactly one 0 into that
\* hand's window, returns no readout and emits no event for the hand, and
\* leaves its moving state, motion-start timestamp, last position,
\* accumulated distance and both debounce counters as they were.
C14_AbsentFrameEffect ==
  [][ \A h \in Handedness :
        (IsFrameStep /\ LastKind(h)' = "absent") =>
          /\ hands'[h].velocityBuffer =
               WindowAfter(hands[h].velocityBuffer, config.smoothingFrames, 0)
          /\ (IF h = Left THEN last'.leftMetrics ELSE last'.rightMetrics) = None
          /\ PushedBy(h)' = <<>>
          /\ hands'[h].isMoving = hands[h].isMoving
          /\ hands'[h].motionStartTime = hands[h].motionStartTime
          /\ hands'[h].lastPosition = hands[h].lastPosition
          /\ hands'[h].totalDistance = hands[h].totalDistance
          /\ hands'[h].framesAboveThreshold = hands[h].framesAboveThreshold
          /\ hands'[h].framesBelowThreshold = hands[h].framesBelowThreshold
    ]_vars

\* ------------------------------------------------------------------- C15
\* C15: between two resets the log only grows by appending: after each
\* processFrame call it is the log before the call followed by exactly the
\* events the call emitted, in the order of emission; no earlier entry is
\* removed, reordered or changed.
C15_LogAppendOnly ==
  [][ IsFrameStep => events' = events \o last'.pushed ]_vars

\* ------------------------------------------------------------------- C16
\* C16: the k-th event emitted in a session, counting from 0 over both hands
\* and both types, has the identifier evt_k, and no two events of the session
\* log share an identifier.
C16_IdIsEmissionIndex ==
  /\ \A i \in 1..Len(emitted) : emitted[i].id = EventId(i - 1)
  /\ \A i, j \in 1..Len(events) : i # j => events[i].id # events[j].id

\* A session in which both hands have emitted, STARTs and STOPs, and the log
\* holds at least three events.
C16_Witness ==
  /\ Len(events) >= 3
  /\ \A h \in Handedness : HandEvents(emitted, h) # <<>>
  /\ \E i \in 1..Len(emitted) : emitted[i].type = "STOP"
  /\ \E i \in 1..Len(emitted) : emitted[i].type = "START" /\ i > 1

\* ------------------------------------------------------------------- C17
\* The readout returned for the hand by the last call.
LastMetrics(h) == IF h = Left THEN last.leftMetrics ELSE last.rightMetrics

\* The smoothed velocity v = num/den against the two thresholds.
StrictlyAbove(v)  == v.num > config.threshold * v.den
StrictlyBelowHalf(v) == 2 * v.num < config.threshold * v.den
InBand(v) == ~StrictlyAbove(v) /\ ~StrictlyBelowHalf(v)

\* C17: a START is emitted only on a frame whose smoothed velocity is
\* strictly above the threshold, a STOP only on a frame whose smoothed
\* velocity is strictly below half the threshold, and on a frame whose
\* smoothed velocity lies in the band from half the threshold to the
\* threshold the hand emits nothing and keeps its moving state.
C17_HysteresisGate ==
  [][ \A h \in Handedness :
        IsFrameStep =>
          /\ PushedBy(h)' # <<>> => LastMetrics(h)' # None
          /\ LastMetrics(h)' # None =>
               LET v == LastMetrics(h)'[1].velocity
                   types == {PushedBy(h)'[i].type : i \in 1..Len(PushedBy(h)')}
               IN  /\ "START" \in types => StrictlyAbove(v)
                   /\ "STOP" \in types => StrictlyBelowHalf(v)
                   /\ InBand(v) =>
                        /\ types = {}
                        /\ hands'[h].isMoving = hands[h].isMoving
    ]_vars

\* A Moving hand on a frame whose smoothed velocity is exactly half the
\* threshold, the lower end of the band.
C17_Witness ==
  /\ last.call = "processFrame"
  /\ LastMetrics(Left) # None
  /\ 2 * LastMetrics(Left)[1].velocity.num
       = config.threshold * LastMetrics(Left)[1].velocity.den
  /\ hands[Left].isMoving

\* ------------------------------------------------------------------- C18
\* The hand has gone from Idle to Moving in the last call.
EnteredMoving(h) ==
  last.call = "processFrame" /\ h \notin last.moving /\ hands[h].isMoving

\* C18: after every processFrame and resetSession call a hand's motion-start
\* timestamp is set exactly when the hand is Moving, and the accumulated
\* distance is zero right after each transition into Moving.
C18_StartTimeIffMoving ==
  \A h \in Handedness :
    /\ hands[h].isMoving <=> hands[h].motionStartTime # None
    /\ EnteredMoving(h) => hands[h].totalDistance = 0

\* The hand enters Moving again after a movement that accumulated distance
\* and was closed by a STOP.
C18_Witness ==
  /\ EnteredMoving(Left)
  /\ \E i \in 1..Len(emitted) :
       emitted[i].type = "STOP" /\ emitted[i].distance > 0

\* ------------------------------------------------------------------- C19
\* The sum of the entries i..Len(q) of q.
RECURSIVE SumFrom(_, _)
SumFrom(q, i) == IF i > Len(q) THEN 0 ELSE q[i] + SumFrom(q, i + 1)

\* The most recent min(capacity, n) of the n samples added since the reset.
Recent ==
  LET n == Len(vbuf.added)
      k == IF n < vbuf.size THEN n ELSE vbuf.size
  IN  SubSeq(vbuf.added, n - k + 1, n)

\* C19: after any sequence of add and reset on a window of capacity c >= 1
\* the window holds at most c samples, they are the most recent min(c, number
\* of adds since the last reset) samples in arrival order, and the average is
\* their arithmetic mean, 0 when the window is empty.
C19_WindowContents ==
  LET avg == VelocityBufferAverage(vbuf.buffer)
  IN  /\ Len(vbuf.buffer) <= vbuf.size
      /\ vbuf.buffer = Recent
      /\ Recent = <<>> => avg.num = 0
      /\ Recent # <<>> => avg.num * Len(Recent) = SumFrom(Recent, 1) * avg.den

\* A window of capacity 2 after four adds, the evicted samples unlike the
\* kept ones, the kept ones unlike each other.
C19_Witness ==
  /\ vbuf.size = 2
  /\ Len(vbuf.added) = 4
  /\ vbuf.buffer = <<1, 2>>
  /\ SubSeq(vbuf.added, 1, 2) = <<2, 0>>

\* ------------------------------------------------------------------- C20
\* The fields of a MotionAnalyzer: processFrame reads and writes nothing
\* else, so two analyzers that agree on them return the same events and
\* readouts for every sequence of frames.
AnalyzerState ==
  [config           |-> config,
   hands            |-> hands,
   sessionStartTime |-> sessionStartTime,
   eventCounter     |-> eventCounter,
   moveOrderCounter |-> moveOrderCounter]

\* The fields of an analyzer newly constructed with the configuration cfg,
\* with the session start t.
ConstructedAt(cfg, t) ==
  [config           |-> cfg,
   hands            |-> [h \in Handedness |-> createHandState],
   sessionStartTime |-> t,
   eventCounter     |-> 0,
   moveOrderCounter |-> 0]

\* C20: resetSession reinitialises the analyzer completely: whatever frames
\* came before, the analyzer after a reset is in the state of a newly
\* constructed analyzer with the same configuration and the same session
\* start, and so behaves as one on every later sequence of frames.
C20_ResetIsFresh ==
  last.call = "resetSession" => AnalyzerState = ConstructedAt(config, last.timestamp)

\* A reset taken while a hand is Moving, events emitted, the clock past 0.
C20_Witness ==
  /\ last.call = "resetSession"
  /\ last.moving # {}
  /\ last.timestamp > 0

\* ------------------------------------------------------------------- C21
\* What of an event does not depend on the other hand: its kind, timestamp
\* and, for a STOP, duration and distance (not the id, not the ordinal).
OwnPart(e) ==
  IF e.type = "START"
  THEN [type |-> e.type, timestamp |-> e.timestamp]
  ELSE [type |-> e.type, timestamp |-> e.timestamp,
        duration |-> e.duration, distance |-> e.distance]

OwnParts(log) == [i \in 1..Len(log) |-> OwnPart(log[i])]

\* C21: the two hands do not interfere.  Two runs with the same timestamps
\* and the same samples of one hand agree on that hand's readouts and on the
\* kind, timestamp, duration and distance of its events, whatever the other
\* hand's samples are; the run in which the other hand is never detected is
\* one of them, so every run agrees with it.
C21_HandsIndependent ==
  \A h \in Handedness :
    /\ LastMetrics(h) = solo[h].metrics
    /\ OwnParts(HandEvents(emitted, h)) = OwnParts(solo[h].events)

\* ------------------------------------------------------------------- C22
\* The events end with a START that no STOP has closed.
EndsWithStart(log) == log # <<>> /\ log[Len(log)].type = "START"

\* C22: on every frame in which a hand is present the moving flag of the
\* returned readout is the state after the frame's transition: true exactly
\* when the hand's events emitted so far in the session, this frame's
\* included, end with a START, false when there are none or the last is a
\* STOP.
C22_ReadoutFlagAfterTransition ==
  \A h \in Handedness :
    /\ (last.call = "processFrame" /\ LastKind(h) = "present" /\ ~last.raised)
         => LastMetrics(h) # None
    /\ LastMetrics(h) # None =>
         (LastMetrics(h)[1].isMoving <=> EndsWithStart(HandEvents(emitted, h)))

\* The frame that emits the STOP returns a readout whose flag is already
\* false.
C22_Witness ==
  /\ LastMetrics(Left) # None
  /\ PushedBy(Left) # <<>>
  /\ PushedBy(Left)[1].type = "STOP"
  /\ ~LastMetrics(Left)[1].isMoving

\* ------------------------------------------------------------------- C23
\* C23: in the camera frame loop onFrame, and with it processFrame, is not
\* invoked while isActive is false, and at most one frame loop is running at
\* any time, under every interleaving of the camera start (getUserMedia
\* resolving, loadedmetadata firing) with the tracking toggles.
C23_LoopFollowsIsActive ==
  /\ ~cam.stray
  /\ Cardinality(cam.scheduled) <= 1

====
